---- MODULE Spec2Model ----
(***************************************************************************)
(* Fleet tracking: the trip status handler of src/App.tsx                  *)
(* (handleUpdateJobStatus), the location reporter of                       *)
(* src/components/DriverPortal.tsx (watchPosition callback and             *)
(* updateLocationInDB) and the document store they share.                  *)
(*                                                                         *)
(* One driver device is modelled.  Every "await" of the source is a point  *)
(* where other handlers may run.  The writes of the device go to the store *)
(* through one ordered queue (wq): updateDoc() puts a write at the tail,   *)
(* the store applies the head and the awaiting handler continues.          *)
(*                                                                         *)
(* Units: time in milliseconds (Date.now()), positions in metres along one *)
(* meridian (on a meridian the haversine distance is proportional to the   *)
(* difference of latitude), distances in metres.  The speed field of a     *)
(* Location is carried by the source but read by none of the operations    *)
(* below and is left out.                                                  *)
(***************************************************************************)
EXTENDS Integers, Sequences, FiniteSets, TLC

\* ------------------------------------------------------------------ bounds
\* Spec: calls of handleUpdateJobStatus, fixes, clock steps, calls in flight
MaxCalls == 3
MaxFixes == 1
MaxTicks == 1
MaxGpsWait == 2
\* SpecSync: the same, for the reporter under a changing syncSpeed
MaxSyncCalls == 1
MaxSyncFixes == 2
MaxSyncTicks == 1
\* SpecTrip: calls of handleUpdateJobStatus and clock steps
MaxTripCalls == 3
MaxTripTicks == 1
\* SpecOnTrip: fixes and clock steps
MaxOnTripFixes == 2
MaxOnTripTicks == 1

\* Date.now() when the page is loaded (any value far above the cooldowns)
StartMillis == 100000

\* steps by which the clock moves between two events
Deltas == {1000, 6000, 16000, 61000}

\* positions the device can report, in metres along the road
Positions == {0, 50}

\* ------------------------------------------------------------ the documents
\* J1 and J2 are dispatched to D1, J3 to D2 (Job.driverId)
Jobs == {"J1", "J2", "J3"}
Drivers == {"D1", "D2"}

\* the driver logged in on the device (user.id)
UserId == "D1"

\* Job.driverId
DriverOf(j) == IF j = "J3" THEN "D2" ELSE "D1"

\* order of the jobs query (orderBy assignedAt desc)
JobOrder == <<"J1", "J2", "J3">>

NoJob == "none"
Unset == -1
NoLoc == [pos |-> Unset, timestamp |-> Unset]

SyncSpeeds == {"FAST", "MEDIUM", "SLOW"}

PENDING == "PENDING"
IN_PROGRESS == "IN_PROGRESS"
COMPLETED == "COMPLETED"
CANCELLED == "CANCELLED"
JobStatus == {PENDING, IN_PROGRESS, COMPLETED, CANCELLED}

VARIABLES
    now,               \* Date.now()
    settingsDB,        \* settings/fleet document: syncSpeed
    jobsDB,            \* jobs collection in the store
    driversDB,         \* drivers collection in the store
    jobs,              \* App state `jobs`: last snapshot of the jobs collection
    fleetSettings,     \* App state `fleetSettings`: last snapshot of syncSpeed
    watch,             \* the watchPosition callback registered by the effect
    lastSyncTimestamp, \* useRef lastSyncTimestamp
    gpsWait,           \* handleUpdateJobStatus calls awaiting getCurrentPosition
    wq,                \* writes issued by the device, not yet applied
    lastFix,           \* position of the last fix handed to the watch callback
    lastEmitted,       \* the last sample handed to updateLocationInDB
    nCalls, nFixes, nTicks,
    adminJobs,           \* AdminDashboard prop `jobs`: the operator's snapshot
    adminView,           \* effective status per driver at the last dashboard render
    selectedJobForRadar, \* AdminDashboard state selectedJobForRadar
    activeTab,           \* AdminDashboard state activeTab
    replayIndex,         \* LiveMap state replayIndex
    isReplaying,         \* LiveMap state isReplaying
    playbackSpeed,       \* LiveMap state playbackSpeed
    lastOp,              \* the last operation of the operator on the dashboard
    editDriverData,      \* AdminDashboard state editDriverData (the edit form)
    user,                \* App state `user`: id of the driver logged in on the device
    drivers,             \* App state `drivers` on the device: ids of the last snapshot
    errorLog,            \* console.error("Sync Failure:") calls of the reporter
    trackMounted,        \* CustomerTracking is rendered
    trackJob,            \* CustomerTracking state `job`
    trackDriverSubs      \* driver listeners opened by CustomerTracking, still active

\* the state of the operator's dashboard and of its map
adminVars == <<adminJobs, adminView, selectedJobForRadar, activeTab,
               replayIndex, isReplaying, playbackSpeed, lastOp, editDriverData>>

\* the session on the device
sessionVars == <<user, drivers, errorLog>>

\* the customer tracking view
trackVars == <<trackMounted, trackJob, trackDriverSubs>>

vars == <<now, settingsDB, jobsDB, driversDB, jobs, fleetSettings, watch,
          lastSyncTimestamp, gpsWait, wq, lastFix, lastEmitted,
          nCalls, nFixes, nTicks,
          adminJobs, adminView, selectedJobForRadar, activeTab,
          replayIndex, isReplaying, playbackSpeed, lastOp, editDriverData,
          user, drivers, errorLog, trackMounted, trackJob, trackDriverSubs>>

\* a job document as dispatched (AdminDashboard onAddJob: status PENDING)
NewJob ==
    [status |-> PENDING, route |-> <<>>, startTime |-> Unset,
     endTime |-> Unset, startLocation |-> NoLoc, endLocation |-> NoLoc,
     distanceKm |-> Unset, avgSpeed |-> Unset]

\* a job id for which the jobs collection has no document
AbsentJob == [NewJob EXCEPT !.status = "ABSENT"]

\* the jobs collection with the one document docu, of job j0
OnlyJob(j0, docu) == [j \in Jobs |-> IF j = j0 THEN docu ELSE AbsentJob]

\* a driver document as registered: no lastSeen field
NewDriver == [status |-> "ONLINE", lastKnownLocation |-> NoLoc, lastSeen |-> Unset]

\* a driver id for which the drivers collection has no document
AbsentDriver == [NewDriver EXCEPT !.status = "ABSENT"]

\* ------------------------------------------------------------ pure helpers
Abs(x) == IF x < 0 THEN -x ELSE x

\* calculateDistance: great-circle distance of two samples, in metres
calculateDistance(loc1, loc2) == Abs(loc2.pos - loc1.pos)

RECURSIVE SumLegs(_, _)
SumLegs(route, i) ==
    IF i >= Len(route) THEN 0
    ELSE calculateDistance(route[i], route[i + 1]) + SumLegs(route, i + 1)

\* total.toFixed(2) on kilometres: rounds to the nearest 10 metres
ToFixed2(metres) == ((metres + 5) \div 10) * 10

\* calculateRouteDistance
calculateRouteDistance(route) ==
    IF Len(route) < 2 THEN 0 ELSE ToFixed2(SumLegs(route, 1))

\* the value of a JavaScript division 0 / 0, outside the range of speeds
NotANumber == 0 - 999999999

\* avgSpeed without the test of durationHours: 0 / 0 for a trip that ends in
\* the millisecond it started and never driven
AvgSpeed_NoGuard(metres, startT, endT) ==
    IF endT - startT > 0
    THEN (2 * metres * 3600 + (endT - startT)) \div (2 * (endT - startT))
    ELSE NotANumber

\* avgSpeed: Math.round(realKm / durationHours), 0 when durationHours <= 0
AvgSpeed(metres, startT, endT) ==
    IF endT - startT > 0
    THEN (2 * metres * 3600 + (endT - startT)) \div (2 * (endT - startT))
    ELSE 0

\* getSyncCooldown
getSyncCooldown(syncSpeed) ==
    CASE syncSpeed = "FAST" -> 5000
      [] syncSpeed = "MEDIUM" -> 15000
      [] syncSpeed = "SLOW" -> 60000
      [] OTHER -> 15000

\* arrayUnion(loc): adds the element unless an equal one is in the array
arrayUnion(route, loc) ==
    IF \E i \in 1..Len(route) : route[i] = loc THEN route
    ELSE Append(route, loc)

\* the document replaced by the update (setDoc without merge): the fields
\* that the update does not name go back to those of a new job
Merge_Replace(docu, updates) ==
    [f \in DOMAIN docu |-> IF f \in DOMAIN updates THEN updates[f] ELSE NewJob[f]]

\* updateDoc(ref, updates): the fields of updates replace those of the doc
Merge(docu, updates) ==
    [f \in DOMAIN docu |-> IF f \in DOMAIN updates THEN updates[f] ELSE docu[f]]

RECURSIVE FindFrom(_, _, _)
FindFrom(js, st, i) ==
    IF i > Len(JobOrder) THEN NoJob
    ELSE IF DriverOf(JobOrder[i]) = user /\ js[JobOrder[i]].status = st
         THEN JobOrder[i]
         ELSE FindFrom(js, st, i + 1)

RECURSIVE FindNotCompletedFrom(_, _)
FindNotCompletedFrom(js, i) ==
    IF i > Len(JobOrder) THEN NoJob
    ELSE IF DriverOf(JobOrder[i]) = user /\ js[JobOrder[i]].status # COMPLETED
         THEN JobOrder[i]
         ELSE FindNotCompletedFrom(js, i + 1)

\* activeJob taken as the first job that is not COMPLETED
activeJob_NotCompleted(js) == FindNotCompletedFrom(js, 1)

\* activeJob = jobs.find(j => j.status === IN_PROGRESS) over the driver's jobs
activeJob(js) == FindFrom(js, IN_PROGRESS, 1)

\* pendingJobs = jobs.filter(j => j.status === PENDING)
pendingJobs(js) == {j \in Jobs : DriverOf(j) = user /\ js[j].status = PENDING}

\* the dependency list without fleetSettings.syncSpeed: [activeJob]
WatchDepsChanged_NoSpeed(oldJobs, newJobs, jobsRendered, oldSpeed, newSpeed) ==
    \/ jobsRendered /\ activeJob(oldJobs) # activeJob(newJobs)
    \/ jobsRendered /\ activeJob(newJobs) # NoJob

\* dependency list of the watch effect: [activeJob, fleetSettings.syncSpeed]
\* (every jobs snapshot builds new job objects, so activeJob is a new value)
WatchDepsChanged(oldJobs, newJobs, jobsRendered, oldSpeed, newSpeed) ==
    \/ jobsRendered /\ activeJob(oldJobs) # activeJob(newJobs)
    \/ jobsRendered /\ activeJob(newJobs) # NoJob
    \/ oldSpeed # newSpeed

\* MOCK_DRIVERS[0].id (constants.tsx line 10)
MockDriver0 == "D1"

\* DriverPortal prop `driver`: drivers.find(d => d.id === user.id) ||
\* MOCK_DRIVERS[0] (App.tsx line 222); the id of that record
driverProp == IF user \in drivers THEN user ELSE MockDriver0

\* the effect: registers a callback closed over activeJob, fleetSettings and
\* (through updateLocationInDB) the prop `driver` of that render
WatchEffect(w, js, syncSpeed, depsChanged) ==
    IF depsChanged
    THEN [active |-> activeJob(js) # NoJob, job |-> activeJob(js),
          syncSpeed |-> syncSpeed, driver |-> driverProp]
    ELSE w

\* ------------------------------------------------------------------- Init
\* editDriverData is null
NoEdit == [id |-> "none"]

\* the operator's dashboard as loaded: OVERVIEW tab, no job selected, the map
\* (LiveMap useState initial values) not replaying, nothing rendered yet
AdminInit(js) ==
    /\ adminJobs = js
    /\ adminView = [at |-> Unset, status |-> [d \in Drivers |-> "none"]]
    /\ selectedJobForRadar = NoJob
    /\ activeTab = "OVERVIEW"
    /\ replayIndex = 0
    /\ isReplaying = FALSE
    /\ playbackSpeed = 1
    /\ lastOp = "none"
    /\ editDriverData = NoEdit

\* the device with its driver logged in and the drivers snapshot received
SessionInit ==
    /\ user = UserId
    /\ drivers = Drivers
    /\ errorLog = {}

\* CustomerTracking state `job` is null
NoTrackJob == [status |-> "null"]

\* no customer tracking view is open
TrackingInit ==
    /\ trackMounted = FALSE
    /\ trackJob = NoTrackJob
    /\ trackDriverSubs = 0

Init ==
    /\ now = StartMillis
    /\ settingsDB = "MEDIUM"
    /\ jobsDB = OnlyJob("J1", NewJob)
    /\ driversDB = [d \in Drivers |-> NewDriver]
    /\ jobs = jobsDB
    /\ fleetSettings = "MEDIUM"
    /\ watch = [active |-> FALSE, job |-> NoJob, syncSpeed |-> "MEDIUM",
                driver |-> UserId]
    /\ lastSyncTimestamp = 0
    /\ gpsWait = <<>>
    /\ wq = <<>>
    /\ lastFix = Unset
    /\ lastEmitted = NoLoc
    /\ nCalls = 0
    /\ nFixes = 0
    /\ nTicks = 0
    /\ AdminInit(jobsDB) /\ SessionInit /\ TrackingInit

\* the clock moves
Tick(d) ==
    /\ now' = now + d
    /\ nTicks' = nTicks + 1
    /\ UNCHANGED <<adminVars, sessionVars, trackVars>>
    /\ UNCHANGED <<settingsDB, jobsDB, driversDB, jobs, fleetSettings, watch,
                   lastSyncTimestamp, gpsWait, wq, lastFix, lastEmitted,
                   nCalls, nFixes>>

\* ------------------------------------------- handleUpdateJobStatus (App.tsx)
\* the start fields written whether or not a position was obtained
JobUpdates_SeedAlways(status, t0, targetJob, pos) ==
    IF status = IN_PROGRESS THEN
        [status |-> status, startTime |-> t0,
         startLocation |-> pos, route |-> <<pos>>]
    ELSE IF status = COMPLETED THEN
        LET finalRoute == IF pos # NoLoc THEN Append(targetJob.route, pos)
                          ELSE targetJob.route
            realKm == calculateRouteDistance(finalRoute)
            c0 == [status |-> status, endTime |-> t0, distanceKm |-> realKm]
            c1 == IF pos # NoLoc THEN c0 @@ [endLocation |-> pos] ELSE c0
        IN  IF targetJob.startTime # Unset
            THEN c1 @@ [avgSpeed |-> AvgSpeed(realKm, targetJob.startTime, t0)]
            ELSE c1
    ELSE [status |-> status]

\* the `updates` object built after getCurrentPosition() has resolved;
\* t0 is `now` of line 113, pos the resolved position (NoLoc for null)
JobUpdates(status, t0, targetJob, pos) ==
    IF status = IN_PROGRESS THEN
        IF pos # NoLoc
        THEN [status |-> status, startTime |-> t0,
              startLocation |-> pos, route |-> <<pos>>]
        ELSE [status |-> status, startTime |-> t0]
    ELSE IF status = COMPLETED THEN
        LET finalRoute == IF pos # NoLoc THEN Append(targetJob.route, pos)
                          ELSE targetJob.route
            realKm == calculateRouteDistance(finalRoute)
            c0 == [status |-> status, endTime |-> t0, distanceKm |-> realKm]
            c1 == IF pos # NoLoc THEN c0 @@ [endLocation |-> pos] ELSE c0
        IN  IF targetJob.startTime # Unset
            THEN c1 @@ [avgSpeed |-> AvgSpeed(realKm, targetJob.startTime, t0)]
            ELSE c1
    ELSE [status |-> status]

\* the status written as ON_JOB for every target status
DriverStatusFor_AlwaysOnJob(status) == "ON_JOB"

\* status written to the driver document (lines 147-149)
DriverStatusFor(status) == IF status = IN_PROGRESS THEN "ON_JOB" ELSE "ONLINE"

\* lines 105-116/126: the call up to its first await
handleUpdateJobStatus(jobId, status) ==
    /\ nCalls' = nCalls + 1
    /\ IF jobs[jobId].status = "ABSENT"
       THEN UNCHANGED <<gpsWait, wq>>
       ELSE IF status \in {IN_PROGRESS, COMPLETED}
       THEN /\ gpsWait' = Append(gpsWait, [job |-> jobId, status |-> status,
                                           now |-> now, targetJob |-> jobs[jobId]])
            /\ wq' = wq
       ELSE /\ wq' = Append(wq, [kind |-> "job", job |-> jobId, status |-> status,
                                 pos |-> NoLoc,
                                 updates |-> JobUpdates(status, now, jobs[jobId], NoLoc)])
            /\ gpsWait' = gpsWait
    /\ UNCHANGED <<adminVars, sessionVars, trackVars>>
    /\ UNCHANGED <<now, settingsDB, jobsDB, driversDB, jobs, fleetSettings,
                   watch, lastSyncTimestamp, lastFix, lastEmitted, nFixes, nTicks>>

\* DriverPortal "Accept Dispatch" button: shown for each pending job while
\* there is no activeJob
AcceptDispatch(j) ==
    /\ activeJob(jobs) = NoJob
    /\ j \in pendingJobs(jobs)
    /\ handleUpdateJobStatus(j, IN_PROGRESS)

\* DriverPortal "Finish Delivery" button: shown while there is an activeJob
FinishDelivery ==
    /\ activeJob(jobs) # NoJob
    /\ handleUpdateJobStatus(activeJob(jobs), COMPLETED)

\* getCurrentPosition() of call i resolves with a position p, or with null
\* (p = Unset); the handler builds `updates` and issues updateDoc(jobRef)
PositionResolved(i, p) ==
    /\ i \in 1..Len(gpsWait)
    /\ LET c == gpsWait[i]
           pos == IF p = Unset THEN NoLoc ELSE [pos |-> p, timestamp |-> now]
       IN  wq' = Append(wq, [kind |-> "job", job |-> c.job, status |-> c.status,
                             pos |-> pos,
                             updates |-> JobUpdates(c.status, c.now, c.targetJob, pos)])
    /\ gpsWait' = [k \in 1..(Len(gpsWait) - 1) |->
                      IF k < i THEN gpsWait[k] ELSE gpsWait[k + 1]]
    /\ UNCHANGED <<adminVars, sessionVars, trackVars>>
    /\ UNCHANGED <<now, settingsDB, jobsDB, driversDB, jobs, fleetSettings,
                   watch, lastSyncTimestamp, lastFix, lastEmitted,
                   nCalls, nFixes, nTicks>>

\* line 146 completes: the job document is updated, then line 147 issues
\* the update of the driver document
AckJobWrite ==
    /\ wq # <<>>
    /\ Head(wq).kind = "job"
    /\ LET w == Head(wq) IN
         /\ jobsDB' = [jobsDB EXCEPT ![w.job] = Merge(@, w.updates)]
         /\ wq' = Append(Tail(wq), [kind |-> "driver", driver |-> DriverOf(w.job),
                                    call |-> [job |-> w.job, status |-> w.status],
                                    status |-> DriverStatusFor(w.status)])
    /\ UNCHANGED <<adminVars, sessionVars, trackVars>>
    /\ UNCHANGED <<now, settingsDB, driversDB, jobs, fleetSettings, watch,
                   lastSyncTimestamp, gpsWait, lastFix, lastEmitted,
                   nCalls, nFixes, nTicks>>

\* line 147 completes: the driver document gets its status
AckDriverWrite ==
    /\ wq # <<>>
    /\ Head(wq).kind = "driver"
    /\ driversDB[Head(wq).driver] # AbsentDriver
    /\ LET w == Head(wq) IN
         driversDB' = [driversDB EXCEPT ![w.driver].status = w.status]
    /\ wq' = Tail(wq)
    /\ UNCHANGED <<adminVars, sessionVars, trackVars>>
    /\ UNCHANGED <<now, settingsDB, jobsDB, jobs, fleetSettings, watch,
                   lastSyncTimestamp, gpsWait, lastFix, lastEmitted,
                   nCalls, nFixes, nTicks>>

\* ------------------------------------------- the reporter (DriverPortal.tsx)
\* watchPosition callback (lines 327-332) with the start of
\* updateLocationInDB (lines 303-310): the fix is p, taken at Date.now()
WatchCallback(p) ==
    /\ watch.active
    /\ nFixes' = nFixes + 1
    /\ LET cooldown == getSyncCooldown(watch.syncSpeed)
           emit == now - lastSyncTimestamp > cooldown
           loc == [pos |-> p, timestamp |-> now]
       IN  /\ lastFix' = p
           /\ IF emit
              THEN /\ wq' = Append(wq, [kind |-> "location", driver |-> watch.driver,
                                        loc |-> loc, job |-> watch.job,
                                        fix |-> nFixes + 1])
                   /\ lastEmitted' = loc
              ELSE UNCHANGED <<wq, lastEmitted>>
    /\ UNCHANGED <<adminVars, sessionVars, trackVars>>
    /\ UNCHANGED <<now, settingsDB, jobsDB, driversDB, jobs, fleetSettings,
                   watch, lastSyncTimestamp, gpsWait, nCalls, nTicks>>

\* line 310 completes: lastKnownLocation is stored; then `if (activeJob)`
\* issues the arrayUnion update of line 315, else line 320 runs
AckLocationWrite ==
    /\ wq # <<>>
    /\ Head(wq).kind = "location"
    /\ driversDB[Head(wq).driver] # AbsentDriver
    /\ LET w == Head(wq) IN
         /\ driversDB' = [driversDB EXCEPT ![w.driver].lastKnownLocation = w.loc]
         /\ IF w.job # NoJob
            THEN /\ wq' = Append(Tail(wq), [kind |-> "route", job |-> w.job,
                                            loc |-> w.loc, fix |-> w.fix])
                 /\ lastSyncTimestamp' = lastSyncTimestamp
            ELSE /\ wq' = Tail(wq)
                 /\ lastSyncTimestamp' = now
    /\ UNCHANGED <<adminVars, sessionVars, trackVars>>
    /\ UNCHANGED <<now, settingsDB, jobsDB, jobs, fleetSettings, watch,
                   gpsWait, lastFix, lastEmitted, nCalls, nFixes, nTicks>>

\* line 315 completes: the sample is in the route; line 320 runs
AckRouteWrite ==
    /\ wq # <<>>
    /\ Head(wq).kind = "route"
    /\ LET w == Head(wq) IN
         jobsDB' = [jobsDB EXCEPT ![w.job].route = arrayUnion(@, w.loc)]
    /\ wq' = Tail(wq)
    /\ lastSyncTimestamp' = now
    /\ UNCHANGED <<adminVars, sessionVars, trackVars>>
    /\ UNCHANGED <<now, settingsDB, driversDB, jobs, fleetSettings, watch,
                   gpsWait, lastFix, lastEmitted, nCalls, nFixes, nTicks>>

\* updateDoc rejects: the retry that is not in updateLocationInDB
FailRouteWrite_Retry ==
    /\ wq # <<>>
    /\ Head(wq).kind = "route"
    /\ errorLog' = errorLog \cup {Head(wq).fix}
    /\ wq' = Append(Tail(wq), Head(wq))
    /\ UNCHANGED <<adminVars, trackVars, user, drivers>>
    /\ UNCHANGED <<now, settingsDB, jobsDB, driversDB, jobs, fleetSettings, watch,
                   lastSyncTimestamp, gpsWait, lastFix, lastEmitted,
                   nCalls, nFixes, nTicks>>

\* the updateDoc of line 315 rejects: control goes to the catch of line 321,
\* which logs; line 320 is skipped
FailRouteWrite ==
    /\ wq # <<>>
    /\ Head(wq).kind = "route"
    /\ errorLog' = errorLog \cup {Head(wq).fix}
    /\ wq' = Tail(wq)
    /\ UNCHANGED <<adminVars, trackVars, user, drivers>>
    /\ UNCHANGED <<now, settingsDB, jobsDB, driversDB, jobs, fleetSettings, watch,
                   lastSyncTimestamp, gpsWait, lastFix, lastEmitted,
                   nCalls, nFixes, nTicks>>

\* the updateDoc of line 310 rejects (the store is unreachable, or there is
\* no document drivers/<driver.id>): control goes to the catch of line 321,
\* which logs; lines 314-320 are skipped
FailLocationWrite ==
    /\ wq # <<>>
    /\ Head(wq).kind = "location"
    /\ errorLog' = errorLog \cup {Head(wq).fix}
    /\ wq' = Tail(wq)
    /\ UNCHANGED <<adminVars, trackVars, user, drivers>>
    /\ UNCHANGED <<now, settingsDB, jobsDB, driversDB, jobs, fleetSettings, watch,
                   lastSyncTimestamp, gpsWait, lastFix, lastEmitted,
                   nCalls, nFixes, nTicks>>

\* ------------------------------------------------ subscriptions (App.tsx)
\* onSnapshot of the jobs query: setJobs, render, the watch effect runs
JobsSnapshot ==
    /\ jobs # jobsDB
    /\ jobs' = jobsDB
    /\ watch' = WatchEffect(watch, jobs', fleetSettings,
                   WatchDepsChanged(jobs, jobs', TRUE, fleetSettings, fleetSettings))
    /\ UNCHANGED <<adminVars, sessionVars, trackVars>>
    /\ UNCHANGED <<now, settingsDB, jobsDB, driversDB, fleetSettings,
                   lastSyncTimestamp, gpsWait, wq, lastFix, lastEmitted,
                   nCalls, nFixes, nTicks>>

\* onSnapshot of settings/fleet: setFleetSettings, render, the effect runs
SettingsSnapshot ==
    /\ fleetSettings # settingsDB
    /\ fleetSettings' = settingsDB
    /\ watch' = WatchEffect(watch, jobs, fleetSettings',
                   WatchDepsChanged(jobs, jobs, FALSE, fleetSettings, fleetSettings'))
    /\ UNCHANGED <<adminVars, sessionVars, trackVars>>
    /\ UNCHANGED <<now, settingsDB, jobsDB, driversDB, jobs,
                   lastSyncTimestamp, gpsWait, wq, lastFix, lastEmitted,
                   nCalls, nFixes, nTicks>>

\* the operator's onUpdateSyncSpeed (App.tsx lines 209-213)
onUpdateSyncSpeed(speed) ==
    /\ speed # settingsDB
    /\ settingsDB' = speed
    /\ UNCHANGED <<adminVars, sessionVars, trackVars>>
    /\ UNCHANGED <<now, jobsDB, driversDB, jobs, fleetSettings, watch,
                   lastSyncTimestamp, gpsWait, wq, lastFix, lastEmitted,
                   nCalls, nFixes, nTicks>>

\* the device: trip handling and the reporter, syncSpeed left as loaded
Next ==
    \/ nTicks < MaxTicks /\ Tick(1000)
    \/ \E j \in Jobs :
          nCalls < MaxCalls /\ Len(gpsWait) < MaxGpsWait /\ AcceptDispatch(j)
    \/ nCalls < MaxCalls /\ Len(gpsWait) < MaxGpsWait /\ FinishDelivery
    \/ \E i \in 1..MaxGpsWait, p \in Positions \cup {Unset} : PositionResolved(i, p)
    \/ AckJobWrite
    \/ AckDriverWrite
    \/ \E p \in Positions : nFixes < MaxFixes /\ WatchCallback(p)
    \/ AckLocationWrite
    \/ AckRouteWrite
    \/ JobsSnapshot

Spec == Init /\ [][Next]_vars

\* the device with the operator changing syncSpeed while the reporter runs
NextSync ==
    \/ \E d \in Deltas : nTicks < MaxSyncTicks /\ Tick(d)
    \/ \E j \in Jobs :
          nCalls < MaxSyncCalls /\ gpsWait = <<>> /\ AcceptDispatch(j)
    \/ \E p \in Positions \cup {Unset} : PositionResolved(1, p)
    \/ AckJobWrite
    \/ AckDriverWrite
    \/ \E p \in Positions : nFixes < MaxSyncFixes /\ WatchCallback(p)
    \/ AckLocationWrite
    \/ AckRouteWrite
    \/ JobsSnapshot
    \/ SettingsSnapshot
    \/ \E speed \in SyncSpeeds : onUpdateSyncSpeed(speed)

SpecSync == Init /\ [][NextSync]_vars

\* the trip handling alone: the two buttons, the status handler, the snapshots
NextTrip ==
    \/ nTicks < MaxTripTicks /\ Tick(1000)
    \/ \E j \in Jobs :
          nCalls < MaxTripCalls /\ Len(gpsWait) < MaxGpsWait /\ AcceptDispatch(j)
    \/ nCalls < MaxTripCalls /\ Len(gpsWait) < MaxGpsWait /\ FinishDelivery
    \/ \E i \in 1..MaxGpsWait, p \in Positions \cup {Unset} : PositionResolved(i, p)
    \/ AckJobWrite
    \/ AckDriverWrite
    \/ JobsSnapshot

SpecTrip == Init /\ [][NextTrip]_vars

\* the device is loaded while the trip of the driver is under way: the job is
\* IN_PROGRESS with its start sample, the first render has registered the watch
InitOnTrip ==
    /\ SessionInit
    /\ LET start == [pos |-> 0, timestamp |-> StartMillis - 1000]
           job == [NewJob EXCEPT !.status = IN_PROGRESS,
                                 !.startTime = StartMillis - 1000,
                                 !.startLocation = start,
                                 !.route = <<start>>]
       IN  /\ now = StartMillis
           /\ settingsDB = "MEDIUM"
           /\ jobsDB = OnlyJob("J1", job)
           /\ driversDB = [d \in Drivers |->
                             IF d = UserId THEN [NewDriver EXCEPT !.status = "ON_JOB"]
                             ELSE NewDriver]
           /\ jobs = jobsDB
           /\ fleetSettings = "MEDIUM"
           /\ watch = WatchEffect([active |-> FALSE, job |-> NoJob,
                                   syncSpeed |-> "MEDIUM", driver |-> driverProp],
                                  jobs, fleetSettings, TRUE)
           /\ lastSyncTimestamp = 0
           /\ gpsWait = <<>>
           /\ wq = <<>>
           /\ lastFix = Unset
           /\ lastEmitted = NoLoc
           /\ nCalls = 0
           /\ nFixes = 0
           /\ nTicks = 0
           /\ AdminInit(jobsDB) /\ TrackingInit

\* the running reporter, the store and the operator's syncSpeed
NextOnTrip ==
    \/ \E d \in Deltas : nTicks < MaxOnTripTicks /\ Tick(d)
    \/ \E p \in Positions : nFixes < MaxOnTripFixes /\ WatchCallback(p)
    \/ AckLocationWrite
    \/ AckRouteWrite
    \/ JobsSnapshot
    \/ SettingsSnapshot
    \/ \E speed \in SyncSpeeds : onUpdateSyncSpeed(speed)

SpecOnTrip == InitOnTrip /\ [][NextOnTrip]_vars

\* ------------------------------------------- delivery of the samples
\* SpecDelivery: fixes and clock steps
MaxDeliveryFixes == 2
MaxDeliveryTicks == 1

\* the running reporter whose writes succeed or are rejected
NextDelivery ==
    \/ \E d \in {1000, 16000} : nTicks < MaxDeliveryTicks /\ Tick(d)
    \/ \E p \in Positions : nFixes < MaxDeliveryFixes /\ WatchCallback(p)
    \/ AckLocationWrite
    \/ AckRouteWrite
    \/ FailLocationWrite
    \/ FailRouteWrite
    \/ JobsSnapshot

SpecDelivery == InitOnTrip /\ [][NextDelivery]_vars

\* ------------------------------------------- the session and its driver
\* SpecSession: fixes, clock steps, deleted drivers
MaxSessionFixes == 2
MaxSessionTicks == 1
MaxDeletes == 1

\* the operator's onDeleteDriver (App.tsx line 217): deleteDoc
onDeleteDriver(id) ==
    /\ driversDB[id] # AbsentDriver
    /\ driversDB' = [driversDB EXCEPT ![id] = AbsentDriver]
    /\ UNCHANGED <<adminVars, sessionVars, trackVars>>
    /\ UNCHANGED <<now, settingsDB, jobsDB, jobs, fleetSettings, watch,
                   lastSyncTimestamp, gpsWait, wq, lastFix, lastEmitted,
                   nCalls, nFixes, nTicks>>

\* onSnapshot of the drivers collection on the device (App.tsx lines 51-54):
\* setDrivers, render; the dependencies of the watch effect have not changed
DriversSnapshot ==
    /\ drivers # {d \in Drivers : driversDB[d] # AbsentDriver}
    /\ drivers' = {d \in Drivers : driversDB[d] # AbsentDriver}
    /\ UNCHANGED <<adminVars, trackVars, user, errorLog>>
    /\ UNCHANGED <<now, settingsDB, jobsDB, driversDB, jobs, fleetSettings, watch,
                   lastSyncTimestamp, gpsWait, wq, lastFix, lastEmitted,
                   nCalls, nFixes, nTicks>>

\* the trip of the driver u that is under way in SpecSession
SessionJob(u) == IF u = "D1" THEN "J1" ELSE "J3"

\* a driver logged in through Login (found in drivers), on a trip, the
\* reporter running
InitSession ==
    /\ user \in Drivers
    /\ drivers = Drivers
    /\ errorLog = {}
    /\ LET start == [pos |-> 0, timestamp |-> StartMillis - 1000]
           job == [NewJob EXCEPT !.status = IN_PROGRESS,
                                 !.startTime = StartMillis - 1000,
                                 !.startLocation = start,
                                 !.route = <<start>>]
       IN  /\ now = StartMillis
           /\ settingsDB = "MEDIUM"
           /\ jobsDB = OnlyJob(SessionJob(user), job)
           /\ driversDB = [d \in Drivers |->
                             IF d = user THEN [NewDriver EXCEPT !.status = "ON_JOB"]
                             ELSE NewDriver]
           /\ jobs = jobsDB
           /\ fleetSettings = "MEDIUM"
           /\ watch = WatchEffect([active |-> FALSE, job |-> NoJob,
                                   syncSpeed |-> "MEDIUM", driver |-> driverProp],
                                  jobs, fleetSettings, TRUE)
           /\ lastSyncTimestamp = 0
           /\ gpsWait = <<>>
           /\ wq = <<>>
           /\ lastFix = Unset
           /\ lastEmitted = NoLoc
           /\ nCalls = 0
           /\ nFixes = 0
           /\ nTicks = 0
           /\ AdminInit(jobsDB) /\ TrackingInit

\* the running reporter of the session, the operator deleting drivers
NextSession ==
    \/ \E d \in {1000, 16000} : nTicks < MaxSessionTicks /\ Tick(d)
    \/ \E p \in Positions : nFixes < MaxSessionFixes /\ WatchCallback(p)
    \/ AckLocationWrite
    \/ AckRouteWrite
    \/ FailLocationWrite
    \/ JobsSnapshot
    \/ DriversSnapshot
    \/ \E d \in Drivers :
          Cardinality({x \in Drivers : driversDB[x] = AbsentDriver}) < MaxDeletes
          /\ onDeleteDriver(d)

SpecSession == InitSession /\ [][NextSession]_vars

\* ------------------------------------------- two dispatches of one driver
\* SpecTwoJobs: calls of handleUpdateJobStatus
MaxTwoJobCalls == 3

\* the updateDoc of the driver document (App.tsx line 147) rejects: the
\* catch of lines 150-153 notifies 'Update failed.' and logs (entry 0); the
\* job document keeps the update of line 146
FailDriverWrite ==
    /\ wq # <<>>
    /\ Head(wq).kind = "driver"
    /\ errorLog' = errorLog \cup {0}
    /\ wq' = Tail(wq)
    /\ UNCHANGED <<adminVars, trackVars, user, drivers>>
    /\ UNCHANGED <<now, settingsDB, jobsDB, driversDB, jobs, fleetSettings, watch,
                   lastSyncTimestamp, gpsWait, lastFix, lastEmitted,
                   nCalls, nFixes, nTicks>>

\* the page as loaded, two jobs dispatched to the driver
InitTwoJobs ==
    /\ now = StartMillis
    /\ settingsDB = "MEDIUM"
    /\ jobsDB = [j \in Jobs |-> IF DriverOf(j) = UserId THEN NewJob ELSE AbsentJob]
    /\ driversDB = [d \in Drivers |-> NewDriver]
    /\ jobs = jobsDB
    /\ fleetSettings = "MEDIUM"
    /\ watch = [active |-> FALSE, job |-> NoJob, syncSpeed |-> "MEDIUM",
                driver |-> UserId]
    /\ lastSyncTimestamp = 0
    /\ gpsWait = <<>>
    /\ wq = <<>>
    /\ lastFix = Unset
    /\ lastEmitted = NoLoc
    /\ nCalls = 0
    /\ nFixes = 0
    /\ nTicks = 0
    /\ AdminInit(jobsDB) /\ SessionInit /\ TrackingInit

\* the driver accepts and finishes; the writes succeed or, for the driver
\* document, are rejected
NextTwoJobs ==
    \/ \E j \in Jobs :
          nCalls < MaxTwoJobCalls /\ Len(gpsWait) < MaxGpsWait /\ AcceptDispatch(j)
    \/ nCalls < MaxTwoJobCalls /\ Len(gpsWait) < MaxGpsWait /\ FinishDelivery
    \/ \E i \in 1..MaxGpsWait, p \in {0, Unset} : PositionResolved(i, p)
    \/ AckJobWrite
    \/ AckDriverWrite
    \/ FailDriverWrite
    \/ JobsSnapshot

SpecTwoJobs == InitTwoJobs /\ [][NextTwoJobs]_vars

\* ------------------------------------------- the operator edits a driver
\* SpecEdit: fixes, clock steps, calls of handleUpdateJobStatus
MaxEditFixes == 2
MaxEditTicks == 1
MaxEditCalls == 1

\* the fields of a driver record that are present: a document that never
\* got a lastKnownLocation or a lastSeen has no such field
PresentFields(driver) ==
    [status |-> driver.status]
    @@ (IF driver.lastKnownLocation # NoLoc
        THEN [lastKnownLocation |-> driver.lastKnownLocation]
        ELSE <<>>)
    @@ (IF driver.lastSeen # Unset THEN [lastSeen |-> driver.lastSeen] ELSE <<>>)

\* AdminDashboard handleOpenEdit (lines 483-489) for the selected driver d:
\* setEditDriverData({ ...driver }), the modal opens; the operator's drivers
\* are taken as up to date with the store
handleOpenEdit(d) ==
    /\ editDriverData = NoEdit
    /\ driversDB[d] # AbsentDriver
    /\ editDriverData' = [id |-> d, data |-> PresentFields(driversDB[d])]
    /\ UNCHANGED <<adminJobs, adminView, selectedJobForRadar, activeTab,
                   replayIndex, isReplaying, playbackSpeed, lastOp>>
    /\ UNCHANGED <<sessionVars, trackVars>>
    /\ UNCHANGED <<now, settingsDB, jobsDB, driversDB, jobs, fleetSettings, watch,
                   lastSyncTimestamp, gpsWait, wq, lastFix, lastEmitted,
                   nCalls, nFixes, nTicks>>

\* AdminDashboard handleUpdateDriverSubmit (lines 491-497) with App's
\* onUpdateDriver (App.tsx line 216): updateDoc(drivers/<id>, { ...d }) with
\* every field of the copy; the modal closes and the copy is not used
\* again before handleOpenEdit replaces it
handleUpdateDriverSubmit ==
    /\ editDriverData # NoEdit
    /\ driversDB[editDriverData.id] # AbsentDriver
    /\ driversDB' = [driversDB EXCEPT
                       ![editDriverData.id] = Merge(@, editDriverData.data)]
    /\ editDriverData' = NoEdit
    /\ UNCHANGED <<adminJobs, adminView, selectedJobForRadar, activeTab,
                   replayIndex, isReplaying, playbackSpeed, lastOp>>
    /\ UNCHANGED <<sessionVars, trackVars>>
    /\ UNCHANGED <<now, settingsDB, jobsDB, jobs, fleetSettings, watch,
                   lastSyncTimestamp, gpsWait, wq, lastFix, lastEmitted,
                   nCalls, nFixes, nTicks>>

\* a trip under way, the reporter running, the driver finishing, the
\* operator editing the driver's profile
NextEdit ==
    \/ \E d \in {16000} : nTicks < MaxEditTicks /\ Tick(d)
    \/ \E p \in Positions : nFixes < MaxEditFixes /\ WatchCallback(p)
    \/ AckLocationWrite
    \/ AckRouteWrite
    \/ nCalls < MaxEditCalls /\ Len(gpsWait) < MaxGpsWait /\ FinishDelivery
    \/ \E i \in 1..MaxGpsWait : PositionResolved(i, Unset)
    \/ AckJobWrite
    \/ AckDriverWrite
    \/ JobsSnapshot
    \/ \E d \in Drivers : handleOpenEdit(d)
    \/ handleUpdateDriverSubmit

SpecEdit == InitOnTrip /\ [][NextEdit]_vars

\* ------------------------------------------- CustomerTracking.tsx
\* SpecTracking: fixes, clock steps, driver listeners opened
MaxTrackFixes == 2
MaxTrackTicks == 1
MaxTrackSubs == 3

\* the prop jobId of the view: the `track` parameter of the URL
TrackId == "J1"

\* the view is rendered and its effect (lines 39-67) runs: onSnapshot on the
\* job document is registered
TrackMount ==
    /\ ~trackMounted
    /\ trackMounted' = TRUE
    /\ trackJob' = NoTrackJob
    /\ UNCHANGED <<adminVars, sessionVars, trackDriverSubs>>
    /\ UNCHANGED <<now, settingsDB, jobsDB, driversDB, jobs, fleetSettings, watch,
                   lastSyncTimestamp, gpsWait, wq, lastFix, lastEmitted,
                   nCalls, nFixes, nTicks>>

\* a snapshot of the job document is delivered (lines 46-64): setJob, and
\* when the document exists a new onSnapshot on the driver document; the
\* function returned at line 59 goes to the snapshot machinery, which does
\* not call it
TrackJobSnapshot ==
    /\ trackMounted
    /\ trackJob # jobsDB[TrackId]
    /\ trackJob' = jobsDB[TrackId]
    /\ trackDriverSubs' = IF jobsDB[TrackId] # AbsentJob
                          THEN trackDriverSubs + 1
                          ELSE trackDriverSubs
    /\ UNCHANGED <<adminVars, sessionVars, trackMounted>>
    /\ UNCHANGED <<now, settingsDB, jobsDB, driversDB, jobs, fleetSettings, watch,
                   lastSyncTimestamp, gpsWait, wq, lastFix, lastEmitted,
                   nCalls, nFixes, nTicks>>

\* the view is torn down: the cleanup of the effect (line 66) calls unsubJob
TrackUnmount ==
    /\ trackMounted
    /\ trackMounted' = FALSE
    /\ trackJob' = NoTrackJob
    /\ UNCHANGED <<adminVars, sessionVars, trackDriverSubs>>
    /\ UNCHANGED <<now, settingsDB, jobsDB, driversDB, jobs, fleetSettings, watch,
                   lastSyncTimestamp, gpsWait, wq, lastFix, lastEmitted,
                   nCalls, nFixes, nTicks>>

\* a trip under way, the reporter adding to its route, a customer opening
\* and leaving the tracking view
NextTracking ==
    \/ \E d \in {16000} : nTicks < MaxTrackTicks /\ Tick(d)
    \/ \E p \in Positions : nFixes < MaxTrackFixes /\ WatchCallback(p)
    \/ AckLocationWrite
    \/ AckRouteWrite
    \/ JobsSnapshot
    \/ TrackMount
    \/ trackDriverSubs < MaxTrackSubs /\ TrackJobSnapshot
    \/ TrackUnmount

SpecTracking == InitOnTrip /\ [][NextTracking]_vars

\* ------------------------------------ presence (AdminDashboard.tsx 415-421)
HEARTBEAT_TIMEOUT == 60000

\* the comparison taken as >= HEARTBEAT_TIMEOUT
getEffectiveStatus_AtTimeout(driver, t) ==
    IF driver.lastSeen = Unset \/ driver.lastSeen = 0
       \/ t - driver.lastSeen >= HEARTBEAT_TIMEOUT
    THEN "OFFLINE"
    ELSE driver.status

\* getEffectiveStatus(driver) called when Date.now() is t; !driver.lastSeen
\* holds for a missing lastSeen and for 0
getEffectiveStatus(driver, t) ==
    IF driver.lastSeen = Unset \/ driver.lastSeen = 0
       \/ t - driver.lastSeen > HEARTBEAT_TIMEOUT
    THEN "OFFLINE"
    ELSE driver.status

\* the dashboard renders the drivers it has received (lines 674, 727)
DashboardRender ==
    /\ adminView' = [at |-> now,
                     status |-> [d \in Drivers |->
                                    getEffectiveStatus(driversDB[d], now)]]
    /\ adminView' # adminView
    /\ UNCHANGED <<now, settingsDB, jobsDB, driversDB, jobs, fleetSettings,
                   watch, lastSyncTimestamp, gpsWait, wq, lastFix, lastEmitted,
                   nCalls, nFixes, nTicks, adminJobs, selectedJobForRadar,
                   activeTab, replayIndex, isReplaying, playbackSpeed, lastOp,
                   editDriverData, sessionVars, trackVars>>

\* SpecPresence: clock steps
MaxPresenceTicks == 2

\* ages of the stored heartbeat when the dashboard is loaded
HeartbeatAges == {10000, 59000, 60000, 60001, 61000}

\* steps of the clock between two renders
PresenceDeltas == {1, 1000}

DriverStatuses == {"ONLINE", "OFFLINE", "ON_JOB"}

\* getEffectiveStatus over drawn driver documents: any stored status, no
\* lastSeen or a lastSeen of one of the ages
InitPresence ==
    /\ now = StartMillis
    /\ settingsDB = "MEDIUM"
    /\ jobsDB = OnlyJob("J1", NewJob)
    /\ \E st \in DriverStatuses,
          seen \in {Unset} \cup {StartMillis - a : a \in HeartbeatAges} :
          driversDB = [d \in Drivers |->
                          IF d = UserId
                          THEN [NewDriver EXCEPT !.status = st, !.lastSeen = seen]
                          ELSE NewDriver]
    /\ jobs = jobsDB
    /\ fleetSettings = "MEDIUM"
    /\ watch = [active |-> FALSE, job |-> NoJob, syncSpeed |-> "MEDIUM",
                driver |-> UserId]
    /\ lastSyncTimestamp = 0
    /\ gpsWait = <<>>
    /\ wq = <<>>
    /\ lastFix = Unset
    /\ lastEmitted = NoLoc
    /\ nCalls = 0
    /\ nFixes = 0
    /\ nTicks = 0
    /\ AdminInit(jobsDB) /\ SessionInit /\ TrackingInit

NextPresence ==
    \/ \E d \in PresenceDeltas : nTicks < MaxPresenceTicks /\ Tick(d)
    \/ DashboardRender

SpecPresence == InitPresence /\ [][NextPresence]_vars

\* SpecHeartbeat: fixes and clock steps
MaxBeatFixes == 2
MaxBeatTicks == 2

\* the driver's client runs during a trip and the dashboard keeps rendering
NextHeartbeat ==
    \/ \E d \in Deltas : nTicks < MaxBeatTicks /\ Tick(d)
    \/ \E p \in Positions : nFixes < MaxBeatFixes /\ WatchCallback(p)
    \/ AckLocationWrite
    \/ AckRouteWrite
    \/ JobsSnapshot
    \/ DashboardRender

\* every write of the client reaches the store, fixes keep coming, the
\* dashboard renders again whenever what it shows is out of date
SpecHeartbeat ==
    /\ InitOnTrip
    /\ [][NextHeartbeat]_vars
    /\ WF_vars(DashboardRender)
    /\ WF_vars(AckLocationWrite)
    /\ WF_vars(AckRouteWrite)
    /\ WF_vars(JobsSnapshot)
    /\ WF_vars(\E p \in Positions : nFixes < MaxBeatFixes /\ WatchCallback(p))
    /\ WF_vars(\E d \in Deltas : nTicks < MaxBeatTicks /\ Tick(d))

\* ------------------------------------------------- cancelling a trip
\* handleUpdateJobStatus(jobId, CANCELLED) for a trip that is under way.  No
\* component of the repository makes this call; it is the handler's branch
\* for a status other than IN_PROGRESS and COMPLETED (lines 115-144 skipped).
CancelTrip(j) ==
    /\ jobs[j].status = IN_PROGRESS
    /\ handleUpdateJobStatus(j, CANCELLED)

\* SpecCancel: calls of handleUpdateJobStatus, fixes, clock steps
MaxCancelCalls == 2
MaxCancelFixes == 2
MaxCancelTicks == 1

\* a trip under way, the reporter running, the trip cancelled
NextCancel ==
    \/ \E d \in {1000, 16000} : nTicks < MaxCancelTicks /\ Tick(d)
    \/ \E j \in Jobs : nCalls < MaxCancelCalls /\ CancelTrip(j)
    \/ AckJobWrite
    \/ AckDriverWrite
    \/ \E p \in Positions : nFixes < MaxCancelFixes /\ WatchCallback(p)
    \/ AckLocationWrite
    \/ AckRouteWrite
    \/ JobsSnapshot

SpecCancel == InitOnTrip /\ [][NextCancel]_vars

\* ------------------------------------------------ the metrics of a trip
\* SpecMetrics: calls of handleUpdateJobStatus
MaxMetricCalls == 1

\* positions of the samples, in metres: legs of 0, 4, 50 and 54 m
MetricPositions == {0, 50, 54}

\* the routes of at most two samples
MetricRoutes ==
    {<<>>}
    \cup {<<[pos |-> a, timestamp |-> StartMillis - 3000]>> : a \in MetricPositions}
    \cup {<<[pos |-> a, timestamp |-> StartMillis - 3000],
            [pos |-> b, timestamp |-> StartMillis - 2000]>> :
              a \in MetricPositions, b \in MetricPositions}

\* startTime of the trip: not set, before, at and after the clock of the
\* device that finishes it
MetricStarts == {Unset, StartMillis - 3600, StartMillis, StartMillis + 1000}

\* a trip under way with its route and startTime as stored
InitMetrics ==
    /\ SessionInit
    /\ \E r \in MetricRoutes, st \in MetricStarts :
         jobsDB = OnlyJob("J1", [NewJob EXCEPT !.status = IN_PROGRESS,
                                               !.startTime = st,
                                               !.route = r])
    /\ now = StartMillis
    /\ settingsDB = "MEDIUM"
    /\ driversDB = [d \in Drivers |->
                      IF d = UserId THEN [NewDriver EXCEPT !.status = "ON_JOB"]
                      ELSE NewDriver]
    /\ jobs = jobsDB
    /\ fleetSettings = "MEDIUM"
    /\ watch = WatchEffect([active |-> FALSE, job |-> NoJob,
                            syncSpeed |-> "MEDIUM", driver |-> driverProp],
                           jobs, fleetSettings, TRUE)
    /\ lastSyncTimestamp = 0
    /\ gpsWait = <<>>
    /\ wq = <<>>
    /\ lastFix = Unset
    /\ lastEmitted = NoLoc
    /\ nCalls = 0
    /\ nFixes = 0
    /\ nTicks = 0
    /\ AdminInit(jobsDB) /\ TrackingInit

\* the driver finishes the delivery
NextMetrics ==
    \/ nCalls < MaxMetricCalls /\ Len(gpsWait) < MaxGpsWait /\ FinishDelivery
    \/ \E i \in 1..MaxGpsWait, p \in MetricPositions \cup {Unset} :
          PositionResolved(i, p)
    \/ AckJobWrite
    \/ AckDriverWrite
    \/ JobsSnapshot

SpecMetrics == InitMetrics /\ [][NextMetrics]_vars

\* ------------------------------------------------ replay (LiveMap.tsx)
\* the tabs of the dashboard that matter here (AdminDashboard.tsx line 427)
Tabs == {"OVERVIEW", "MAP", "REPORTS"}

\* playbackSpeed buttons (line 302)
Speeds == {1, 2, 4}

\* width of the scrub bar in pixels, and the offsets of a click on it
BarWidth == 4

\* LiveMap prop `route`: radarJob?.route || [] (AdminDashboard.tsx 504, 610)
radarRoute ==
    IF selectedJobForRadar = NoJob THEN <<>>
    ELSE adminJobs[selectedJobForRadar].route

\* LiveMap is rendered on the MAP tab only (AdminDashboard.tsx line 604)
Mounted == activeTab = "MAP"

\* the replay panel: selectedJobId && route.length > 0 (line 293)
ReplayShown == Mounted /\ selectedJobForRadar # NoJob /\ Len(radarRoute) > 0

\* the playback interval exists: isReplaying && route.length > 0 (line 118)
IntervalRunning == Mounted /\ isReplaying /\ Len(radarRoute) > 0

\* the result of a JavaScript division a / b of two non-negative integers,
\* in hundredths: 0 / 0 is NaN and n / 0, n > 0, is Infinity
JsDivide(a, b) ==
    IF b # 0 THEN [kind |-> "number", val |-> (a * 100) \div b]
    ELSE IF a = 0 THEN [kind |-> "NaN", val |-> 0]
    ELSE [kind |-> "Infinity", val |-> 0]

\* the width of the progress bar of the replay panel, in percent:
\* (replayIndex / (route.length - 1)) * 100
progressWidth == JsDivide(replayIndex, Len(radarRoute) - 1)

\* period of the playback interval in ms: 1000 / (playbackSpeed * 3)
PlaybackInterval(speed) == 1000 \div (speed * 3)


Min(a, b) == IF a < b THEN a ELSE b
Max(a, b) == IF a > b THEN a ELSE b

\* the device, the store, the edit form and the tracking view do not move in
\* a step of the map
DeviceUnchanged ==
    UNCHANGED <<now, settingsDB, jobsDB, driversDB, jobs, fleetSettings, watch,
                lastSyncTimestamp, gpsWait, wq, lastFix, lastEmitted,
                nCalls, nFixes, nTicks, editDriverData, sessionVars, trackVars>>

\* LiveMap is mounted or unmounted: its state is that of useState (27-30);
\* the effect of lines 84-101 sets the same values
LiveMapFresh ==
    /\ replayIndex' = 0
    /\ isReplaying' = FALSE
    /\ playbackSpeed' = 1

\* a tab button (AdminDashboard.tsx line 545)
SetActiveTab(tab) ==
    /\ tab # activeTab
    /\ activeTab' = tab
    /\ LiveMapFresh
    /\ lastOp' = "tab"
    /\ DeviceUnchanged
    /\ UNCHANGED <<adminJobs, adminView, selectedJobForRadar>>

\* "Live Track" button of a job in progress (AdminDashboard.tsx 570-577)
LiveTrack(j) ==
    /\ activeTab = "OVERVIEW"
    /\ adminJobs[j].status = IN_PROGRESS
    /\ selectedJobForRadar' = j
    /\ activeTab' = "MAP"
    /\ LiveMapFresh
    /\ lastOp' = "track"
    /\ DeviceUnchanged
    /\ UNCHANGED <<adminJobs, adminView>>

\* "View Replay" button of a completed job (AdminDashboard.tsx 631, 656-661)
ViewReplay(j) ==
    /\ activeTab = "REPORTS"
    /\ adminJobs[j].status = COMPLETED
    /\ selectedJobForRadar' = j
    /\ activeTab' = "MAP"
    /\ LiveMapFresh
    /\ lastOp' = "replay"
    /\ DeviceUnchanged
    /\ UNCHANGED <<adminJobs, adminView>>

\* onSnapshot of the jobs query on the operator's client (App.tsx 56-58):
\* every job is a new object, so the route prop changes and the effect of
\* LiveMap lines 84-101 puts the replay back to index 0, not playing
AdminJobsSnapshot ==
    /\ adminJobs # jobsDB
    /\ adminJobs' = jobsDB
    /\ replayIndex' = 0
    /\ isReplaying' = FALSE
    /\ lastOp' = "snapshot"
    /\ DeviceUnchanged
    /\ UNCHANGED <<adminView, selectedJobForRadar, activeTab, playbackSpeed>>

\* click on the scrub bar, x pixels from its left edge (lines 308-311)
Scrub(x) ==
    /\ ReplayShown
    /\ replayIndex' = (x * (Len(radarRoute) - 1)) \div BarWidth
    /\ lastOp' = "scrub"
    /\ DeviceUnchanged
    /\ UNCHANGED <<adminJobs, adminView, selectedJobForRadar, activeTab,
                   isReplaying, playbackSpeed>>

\* step back button (line 316)
StepBack ==
    /\ ReplayShown
    /\ replayIndex' = Max(0, replayIndex - 10)
    /\ lastOp' = "back"
    /\ DeviceUnchanged
    /\ UNCHANGED <<adminJobs, adminView, selectedJobForRadar, activeTab,
                   isReplaying, playbackSpeed>>

\* the step forward without Math.min
StepForward_NoClamp ==
    /\ ReplayShown
    /\ replayIndex' = replayIndex + 10
    /\ lastOp' = "forward"
    /\ DeviceUnchanged
    /\ UNCHANGED <<adminJobs, adminView, selectedJobForRadar, activeTab,
                   isReplaying, playbackSpeed>>

\* step forward button (line 320)
StepForward ==
    /\ ReplayShown
    /\ replayIndex' = Min(Len(radarRoute) - 1, replayIndex + 10)
    /\ lastOp' = "forward"
    /\ DeviceUnchanged
    /\ UNCHANGED <<adminJobs, adminView, selectedJobForRadar, activeTab,
                   isReplaying, playbackSpeed>>

\* play / pause button (line 317)
TogglePlay ==
    /\ ReplayShown
    /\ isReplaying' = ~isReplaying
    /\ lastOp' = "toggle"
    /\ DeviceUnchanged
    /\ UNCHANGED <<adminJobs, adminView, selectedJobForRadar, activeTab,
                   replayIndex, playbackSpeed>>

\* the speed button that also puts the replay back to its start
setPlaybackSpeed_Restart(s) ==
    /\ ReplayShown
    /\ playbackSpeed' = s
    /\ replayIndex' = 0
    /\ isReplaying' = FALSE
    /\ lastOp' = "speed"
    /\ DeviceUnchanged
    /\ UNCHANGED <<adminJobs, adminView, selectedJobForRadar, activeTab>>

\* speed buttons (lines 302-304); the interval is set up again with the new
\* period by the effect of lines 117-132
setPlaybackSpeed(s) ==
    /\ ReplayShown
    /\ playbackSpeed' = s
    /\ lastOp' = "speed"
    /\ DeviceUnchanged
    /\ UNCHANGED <<adminJobs, adminView, selectedJobForRadar, activeTab,
                   replayIndex, isReplaying>>

\* the interval callback that goes on two samples at a time
TimerTick_Skip ==
    /\ IntervalRunning
    /\ IF replayIndex >= Len(radarRoute) - 1
       THEN isReplaying' = FALSE /\ replayIndex' = replayIndex
       ELSE isReplaying' = isReplaying
            /\ replayIndex' = Min(Len(radarRoute) - 1, replayIndex + 2)
    /\ lastOp' = "tick"
    /\ DeviceUnchanged
    /\ UNCHANGED <<adminJobs, adminView, selectedJobForRadar, activeTab,
                   playbackSpeed>>

\* the interval callback (lines 119-127)
TimerTick ==
    /\ IntervalRunning
    /\ IF replayIndex >= Len(radarRoute) - 1
       THEN isReplaying' = FALSE /\ replayIndex' = replayIndex
       ELSE isReplaying' = isReplaying /\ replayIndex' = replayIndex + 1
    /\ lastOp' = "tick"
    /\ DeviceUnchanged
    /\ UNCHANGED <<adminJobs, adminView, selectedJobForRadar, activeTab,
                   playbackSpeed>>

\* SpecReplay, SpecPlayback: the longest route that is replayed
MaxReplayLen == 12

\* lengths of the replayed route
ReplayLens == {1, 2, MaxReplayLen}

\* a route of n samples, one per second, 50 metres apart
MakeRoute(n) ==
    [i \in 1..n |-> [pos |-> 50 * (i - 1),
                     timestamp |-> StartMillis - 1000 * (n + 1 - i)]]

\* a trip with a route of n samples, finished by handleUpdateJobStatus
CompletedJob(n) ==
    LET r == MakeRoute(n)
        ip == [NewJob EXCEPT !.status = IN_PROGRESS,
                             !.startTime = r[1].timestamp,
                             !.startLocation = r[1],
                             !.route = r]
    IN  Merge(ip, JobUpdates(COMPLETED, StartMillis, ip,
                             [pos |-> 50 * n, timestamp |-> StartMillis]))

\* the dashboard is loaded when the trip is completed
InitReplay ==
    /\ now = StartMillis
    /\ settingsDB = "MEDIUM"
    /\ \E n \in ReplayLens : jobsDB = OnlyJob("J1", CompletedJob(n))
    /\ driversDB = [d \in Drivers |-> NewDriver]
    /\ jobs = jobsDB
    /\ fleetSettings = "MEDIUM"
    /\ watch = [active |-> FALSE, job |-> NoJob, syncSpeed |-> "MEDIUM",
                driver |-> UserId]
    /\ lastSyncTimestamp = 0
    /\ gpsWait = <<>>
    /\ wq = <<>>
    /\ lastFix = Unset
    /\ lastEmitted = NoLoc
    /\ nCalls = 0
    /\ nFixes = 0
    /\ nTicks = 0
    /\ AdminInit(jobsDB) /\ SessionInit /\ TrackingInit

\* the operator at the replay of a completed trip
NextReplay ==
    \/ \E tab \in Tabs : SetActiveTab(tab)
    \/ \E j \in Jobs : ViewReplay(j)
    \/ \E x \in 0..BarWidth : Scrub(x)
    \/ StepBack
    \/ StepForward
    \/ TogglePlay
    \/ \E s \in Speeds : setPlaybackSpeed(s)
    \/ TimerTick

SpecReplay == InitReplay /\ [][NextReplay]_vars

\* playback that is not interrupted: the operator seeks, leaves the map and
\* presses play only while the replay is paused
NextPlayback ==
    \/ \E tab \in Tabs : ~isReplaying /\ SetActiveTab(tab)
    \/ \E j \in Jobs : ViewReplay(j)
    \/ \E x \in 0..BarWidth : ~isReplaying /\ Scrub(x)
    \/ ~isReplaying /\ StepBack
    \/ ~isReplaying /\ StepForward
    \/ ~isReplaying /\ TogglePlay
    \/ \E s \in Speeds : setPlaybackSpeed(s)
    \/ TimerTick

\* the interval of window.setInterval keeps firing while it exists
SpecPlayback == InitReplay /\ [][NextPlayback]_vars /\ WF_vars(TimerTick)

\* SpecRadar: calls of handleUpdateJobStatus
MaxRadarCalls == 2

\* the driver takes and finishes the trip while the operator watches
NextRadar ==
    \/ \E j \in Jobs : nCalls < MaxRadarCalls /\ gpsWait = <<>> /\ AcceptDispatch(j)
    \/ nCalls < MaxRadarCalls /\ gpsWait = <<>> /\ FinishDelivery
    \/ \E p \in Positions \cup {Unset} : PositionResolved(1, p)
    \/ AckJobWrite
    \/ AckDriverWrite
    \/ JobsSnapshot
    \/ AdminJobsSnapshot
    \/ \E tab \in Tabs : SetActiveTab(tab)
    \/ \E j \in Jobs : LiveTrack(j)
    \/ \E j \in Jobs : ViewReplay(j)
    \/ TogglePlay
    \/ TimerTick

SpecRadar == Init /\ [][NextRadar]_vars

\* ----------------------------------------------------------- the properties
Terminal == {COMPLETED, CANCELLED}

\* the step in which the store applies the job update of a status call (the
\* head of the queue gives way to the driver update at the tail)
JobWriteApplied ==
    wq # <<>> /\ Head(wq).kind = "job" /\ wq' # wq /\ Len(wq') = Len(wq)

\* the step in which the store applies an arrayUnion of the reporter
RouteWriteApplied ==
    wq # <<>> /\ Head(wq).kind = "route" /\ wq' = Tail(wq)

\* the step in which the watch callback evaluates a fix
FixEvaluated == nFixes' = nFixes + 1

\* the step in which the watch callback hands a fix to updateLocationInDB
EmissionStarted == FixEvaluated /\ Len(wq') = Len(wq) + 1

RECURSIVE Sorted(_, _)
Sorted(route, i) ==
    \/ i >= Len(route)
    \/ /\ route[i].timestamp <= route[i + 1].timestamp
       /\ Sorted(route, i + 1)

\* C1: once a trip is COMPLETED or CANCELLED, no later status update changes
\* it; the update is rejected or ignored and the status stays terminal.
C1_TerminalTripUnchanged ==
    [][\A j \in Jobs :
          (jobsDB[j].status \in Terminal /\ JobWriteApplied)
              => jobsDB'[j] = jobsDB[j]]_vars

\* C2: from PENDING a trip moves only to IN_PROGRESS or CANCELLED, from
\* IN_PROGRESS only to COMPLETED or CANCELLED; a trip becomes COMPLETED only
\* from IN_PROGRESS and never returns to PENDING.
C2_LegalMoves ==
    [][\A j \in Jobs :
          LET s == jobsDB[j].status
              t == jobsDB'[j].status
          IN  /\ s = PENDING => t \in {PENDING, IN_PROGRESS, CANCELLED}
              /\ s = IN_PROGRESS => t \in {IN_PROGRESS, COMPLETED, CANCELLED}
              /\ (t = COMPLETED /\ s # COMPLETED) => s = IN_PROGRESS
              /\ t = PENDING => s = PENDING]_vars

\* a trip that went PENDING -> IN_PROGRESS -> COMPLETED: it has a start time,
\* an end time and the metrics of the completion
C2_Witness ==
    \E j \in Jobs :
        /\ jobsDB[j].status = COMPLETED
        /\ jobsDB[j].startTime # Unset
        /\ jobsDB[j].endTime # Unset
        /\ jobsDB[j].distanceKm # Unset

\* C3: a sample that reaches the store while its trip is not IN_PROGRESS is
\* not appended to the route of that trip.
C3_NoAppendUnlessActive ==
    [][RouteWriteApplied =>
          (jobsDB[Head(wq).job].status # IN_PROGRESS
              => jobsDB'[Head(wq).job].route = jobsDB[Head(wq).job].route)]_vars

\* C4: after a trip is COMPLETED its route, distanceKm, avgSpeed, endTime and
\* endLocation never change again.
C4_CompletedFrozen ==
    [][\A j \in Jobs :
          jobsDB[j].status = COMPLETED =>
              /\ jobsDB'[j].route = jobsDB[j].route
              /\ jobsDB'[j].distanceKm = jobsDB[j].distanceKm
              /\ jobsDB'[j].avgSpeed = jobsDB[j].avgSpeed
              /\ jobsDB'[j].endTime = jobsDB[j].endTime
              /\ jobsDB'[j].endLocation = jobsDB[j].endLocation]_vars

\* C5: the end sample obtained on completion is appended to the stored route,
\* so the stored route of a completed trip ends with the end sample.
C5_RouteEndsWithEndSample ==
    \A j \in Jobs :
        (jobsDB[j].status = COMPLETED /\ jobsDB[j].endLocation # NoLoc)
            => /\ jobsDB[j].route # <<>>
               /\ jobsDB[j].route[Len(jobsDB[j].route)] = jobsDB[j].endLocation

\* C6: for every COMPLETED trip the stored distanceKm is calculateRouteDistance
\* of the stored route.
C6_DistanceOfStoredRoute ==
    \A j \in Jobs :
        jobsDB[j].status = COMPLETED
            => jobsDB[j].distanceKm = calculateRouteDistance(jobsDB[j].route)

\* C7: every stored route is ordered by non-decreasing sample timestamp.
C7_RouteSorted == \A j \in Jobs : Sorted(jobsDB[j].route, 1)

\* C8: a fix at least 50 metres from the last emitted sample is emitted even
\* when it comes 1 to 2 seconds after that emission, less than any time
\* threshold.
C8_MovedFixEmitted ==
    [][(/\ FixEvaluated
        /\ lastEmitted # NoLoc
        /\ now - lastEmitted.timestamp >= 1000
        /\ now - lastEmitted.timestamp <= 2000
        /\ Abs(lastFix' - lastEmitted.pos) >= 50) => EmissionStarted]_vars

\* C9: a fix that comes within the time threshold of the last emitted sample
\* (here: one second or more after it) and has not moved from it is not
\* emitted, whether or not the write of that sample has finished.
C9_CloseFixSuppressed ==
    [][(/\ FixEvaluated
        /\ lastEmitted # NoLoc
        /\ now - lastEmitted.timestamp >= 1000
        /\ now - lastEmitted.timestamp <= getSyncCooldown(fleetSettings)
        /\ lastFix' = lastEmitted.pos) => ~EmissionStarted]_vars

\* the thresholds of the claim
C10_Threshold(syncSpeed) ==
    CASE syncSpeed = "FAST" -> 5000
      [] syncSpeed = "MEDIUM" -> 15000
      [] syncSpeed = "SLOW" -> 60000

\* C10: the time threshold is 5 s for FAST, 15 s for MEDIUM, 60 s for SLOW;
\* every fix is judged against the threshold of the syncSpeed the device has
\* received last, and receiving a new syncSpeed neither stops the reporter
\* nor changes the time of the last emission.
C10_NewSpeedNextFix ==
    [][/\ FixEvaluated =>
            (EmissionStarted <=>
                now - lastSyncTimestamp > C10_Threshold(fleetSettings))
       /\ fleetSettings' # fleetSettings =>
            /\ lastSyncTimestamp' = lastSyncTimestamp
            /\ watch'.active = watch.active
            /\ watch'.job = watch.job]_vars

\* a sample was emitted 6 s after the last completed emission, which only the
\* FAST threshold allows, on a device that was loaded with MEDIUM
C10_Witness ==
    /\ fleetSettings = "FAST"
    /\ lastSyncTimestamp > 0
    /\ lastEmitted.timestamp - lastSyncTimestamp = 6000
    /\ wq # <<>>
    /\ Head(wq).kind = "location"
    /\ Head(wq).loc = lastEmitted

\* the step in which the dashboard renders
Rendered == adminView' # adminView

\* C11: the effective status of a driver with a stored heartbeat is OFFLINE
\* when the heartbeat is more than 60 s old at the time of the render,
\* whatever the stored status, and the stored status otherwise; a heartbeat
\* exactly 60 s old is not OFFLINE.
C11_EffectiveStatus ==
    [][Rendered =>
          /\ adminView'.at = now
          /\ \A d \in Drivers :
                driversDB[d].lastSeen # Unset =>
                    adminView'.status[d] =
                        IF now - driversDB[d].lastSeen > 60000
                        THEN "OFFLINE"
                        ELSE driversDB[d].status]_vars

\* a driver stored ON_JOB is shown ON_JOB by a render made exactly 60 s
\* after the heartbeat
C11_Witness ==
    /\ driversDB[UserId].status = "ON_JOB"
    /\ driversDB[UserId].lastSeen # Unset
    /\ adminView.at - driversDB[UserId].lastSeen = 60000
    /\ adminView.status[UserId] = "ON_JOB"

\* C12: the client of a driver refreshes lastSeen again and again, so a
\* running client stored ON_JOB (or ONLINE) is eventually shown with that
\* status and not as OFFLINE.
C12_RunningClientReported ==
    <>(/\ adminView.at # Unset
       /\ driversDB[UserId].status \in {"ONLINE", "ON_JOB"}
       /\ adminView.status[UserId] = driversDB[UserId].status)

\* C13: the write that takes a trip from PENDING to IN_PROGRESS sets the
\* status and startTime whether or not a position was obtained; without a
\* position startLocation stays unset and the route stays empty, with a
\* position startLocation is that sample and the route is exactly that sample.
C13_BestEffortStart ==
    [][\A j \in Jobs :
          (/\ JobWriteApplied
           /\ Head(wq).job = j
           /\ Head(wq).status = IN_PROGRESS
           /\ jobsDB[j].status = PENDING)
          => /\ jobsDB'[j].status = IN_PROGRESS
             /\ jobsDB'[j].startTime # Unset
             /\ IF Head(wq).pos = NoLoc
                THEN /\ jobsDB'[j].startLocation = NoLoc
                     /\ jobsDB'[j].route = <<>>
                ELSE /\ jobsDB'[j].startLocation = Head(wq).pos
                     /\ jobsDB'[j].route = <<Head(wq).pos>>]_vars

\* a trip started without a position: IN_PROGRESS with a start time, no
\* start location and an empty route
C13_Witness ==
    \E j \in Jobs :
        /\ jobsDB[j].status = IN_PROGRESS
        /\ jobsDB[j].startTime # Unset
        /\ jobsDB[j].startLocation = NoLoc
        /\ jobsDB[j].route = <<>>

\* the step in which the store applies the driver update of a status call
DriverWriteApplied ==
    wq # <<>> /\ Head(wq).kind = "driver" /\ wq' = Tail(wq)

\* C14: the driver update that ends a status call leaves the driver of the
\* trip stored ON_JOB when the call was for IN_PROGRESS and ONLINE when it
\* was for COMPLETED.
C14_VehicleStatusFollows ==
    [][DriverWriteApplied =>
          LET c == Head(wq).call
          IN  /\ c.status = IN_PROGRESS
                    => driversDB'[DriverOf(c.job)].status = "ON_JOB"
              /\ c.status = COMPLETED
                    => driversDB'[DriverOf(c.job)].status = "ONLINE"]_vars

\* the trip was completed and its call has finished: the driver is ONLINE
C14_Witness ==
    \E j \in Jobs :
        /\ jobsDB[j].status = COMPLETED
        /\ jobsDB[j].endTime # Unset
        /\ driversDB[DriverOf(j)].status = "ONLINE"
        /\ wq = <<>>
        /\ gpsWait = <<>>

\* C15: the write of a CANCELLED status leaves the route, distanceKm and
\* avgSpeed of the trip as they are.
C15_CancelKeepsRouteAndMetrics ==
    [][\A j \in Jobs :
          (JobWriteApplied /\ Head(wq).job = j /\ Head(wq).status = CANCELLED)
          => /\ jobsDB'[j].status = CANCELLED
             /\ jobsDB'[j].route = jobsDB[j].route
             /\ jobsDB'[j].distanceKm = jobsDB[j].distanceKm
             /\ jobsDB'[j].avgSpeed = jobsDB[j].avgSpeed]_vars

\* a cancelled trip that keeps its start sample and a streamed sample and
\* has no metrics
C15_Witness ==
    \E j \in Jobs :
        /\ jobsDB[j].status = CANCELLED
        /\ Len(jobsDB[j].route) >= 2
        /\ jobsDB[j].distanceKm = Unset
        /\ jobsDB[j].avgSpeed = Unset

\* C16: while the map shows a route that is not empty, the replay index is
\* at least 0 and at most the index of the last sample, after any sequence
\* of scrub clicks, steps of 10 back and forward, play, pause, speed changes
\* and timer ticks.
C16_CursorInRange ==
    (Mounted /\ Len(radarRoute) > 0)
        => (0 <= replayIndex /\ replayIndex <= Len(radarRoute) - 1)

\* a step forward of 10 on a route of 2 samples ended on the last sample
C16_Witness ==
    /\ ReplayShown
    /\ Len(radarRoute) = 2
    /\ lastOp = "forward"
    /\ replayIndex = 1

\* the step in which the interval callback acts
TimerTicked ==
    /\ lastOp' = "tick"
    /\ (replayIndex' # replayIndex \/ isReplaying' # isReplaying)

C18_OneSampleNeverPlaying ==
    (ReplayShown /\ Len(radarRoute) = 1) => ~isReplaying

\* the step in which a speed button changes playbackSpeed
SpeedSet == lastOp' = "speed" /\ playbackSpeed' # playbackSpeed

\* C19: a speed button changes the period of the interval and leaves the
\* replay index and the playing flag as they are, playing or paused.
C19_SpeedKeepsPosition ==
    [][SpeedSet =>
          /\ playbackSpeed' \in Speeds
          /\ PlaybackInterval(playbackSpeed') # PlaybackInterval(playbackSpeed)
          /\ replayIndex' = replayIndex
          /\ isReplaying' = isReplaying
          /\ IntervalRunning' = IntervalRunning]_vars

\* the speed was set to 4 in the middle of a playback, which goes on
C19_Witness ==
    /\ ReplayShown
    /\ lastOp = "speed"
    /\ playbackSpeed = 4
    /\ isReplaying
    /\ replayIndex > 0
    /\ replayIndex < Len(radarRoute) - 1

\* C20: the replay panel is shown for the route of a COMPLETED trip only.
C20_OnlyCompletedReplayed ==
    ReplayShown => adminJobs[selectedJobForRadar].status = COMPLETED
\* ------------------------------------------------------------------ C21
\* C21: while the replay panel is shown, the progress percentage
\* replayIndex / (route.length - 1) * 100 is a defined number: the division
\* is never done with a divisor of 0.
C21_ProgressDefined ==
    ReplayShown => /\ Len(radarRoute) - 1 # 0
                   /\ progressWidth.kind = "number"

\* ------------------------------------------------------------------ C24
\* the calls of updateLocationInDB that have started and not returned: each
\* is waiting for its vehicle-location write or for its route append
EmissionsInFlight ==
    {i \in 1..Len(wq) : wq[i].kind \in {"location", "route"}}

\* C24: within one vehicle at most one emission (vehicle-location write
\* followed by route append) is in flight at any time.
C24_OneEmissionInFlight == Cardinality(EmissionsInFlight) <= 1

\* ------------------------------------------------------------------ C23
\* the route whose length is measured by the COMPLETED write at the head of
\* the queue: the stored samples and, when there is one, the end position
MeasuredRoute ==
    LET w == Head(wq) IN
      IF w.pos # NoLoc THEN Append(jobsDB[w.job].route, w.pos)
      ELSE jobsDB[w.job].route

\* the COMPLETED write at the head of the queue is applied to the store
CompletionApplied == JobWriteApplied /\ Head(wq).status = COMPLETED

\* avgSpeed as stored by the COMPLETED write at the head of the queue: a
\* number that is not negative, and 0 when the trip lasted 0 ms or less
AvgSpeedDefined ==
    LET j == Head(wq).job IN
      jobsDB[j].startTime # Unset =>
        /\ jobsDB'[j].avgSpeed \in Nat
        /\ jobsDB'[j].endTime - jobsDB[j].startTime <= 0 => jobsDB'[j].avgSpeed = 0

\* C23 (as amended): a finished trip gets distanceKm = 0 when fewer than two
\* samples were measured and otherwise the sum of the pairwise distances
\* rounded to two decimals of a kilometre; its avgSpeed is 0 when its
\* duration is 0 or less; neither is ever NaN.
C23_DegenerateMetrics ==
    [][CompletionApplied =>
         LET j == Head(wq).job
             total == SumLegs(MeasuredRoute, 1)
         IN  /\ jobsDB'[j].distanceKm \in Nat
             /\ Len(MeasuredRoute) < 2 => jobsDB'[j].distanceKm = 0
             /\ Len(MeasuredRoute) >= 2 =>
                  /\ jobsDB'[j].distanceKm % 10 = 0
                  /\ Abs(jobsDB'[j].distanceKm - total) <= 5
             /\ AvgSpeedDefined]_vars

\* a trip of one sample finished without an end position in the millisecond
\* it started, or before: distanceKm and avgSpeed are stored as 0
C23_Witness ==
    /\ jobsDB["J1"].status = COMPLETED
    /\ Len(jobsDB["J1"].route) < 2
    /\ jobsDB["J1"].endLocation = NoLoc
    /\ jobsDB["J1"].startTime # Unset
    /\ jobsDB["J1"].endTime <= jobsDB["J1"].startTime
    /\ jobsDB["J1"].distanceKm = 0
    /\ jobsDB["J1"].avgSpeed = 0

\* C23 as stated: distanceKm of a finished trip with two samples or more is
\* the sum of the pairwise distances.
C23_ExactSum ==
    [][CompletionApplied =>
         LET j == Head(wq).job IN
           /\ Len(MeasuredRoute) < 2 => jobsDB'[j].distanceKm = 0
           /\ Len(MeasuredRoute) >= 2 =>
                jobsDB'[j].distanceKm = SumLegs(MeasuredRoute, 1)
           /\ AvgSpeedDefined]_vars

\* ------------------------------------------------------------------ C25
\* the writes of the reporter that wait in the queue
SampleWrites == {i \in 1..Len(wq) : wq[i].kind \in {"location", "route"}}

\* no sample occurs twice in the route
NoDuplicates(route) ==
    \A i \in 1..Len(route), k \in 1..Len(route) : route[i] = route[k] => i = k

\* C25: a sample whose write failed is dropped: no write of it is issued
\* afterwards; no sample is in the route of a trip more than once; and the
\* write started for a fix, also after a failure, carries the position of
\* that fix and the time it was taken.
C25_AtMostOnce ==
    /\ [](\A i \in SampleWrites : wq[i].fix \notin errorLog)
    /\ [](\A j \in Jobs : NoDuplicates(jobsDB[j].route))
    /\ [][EmissionStarted =>
            /\ wq'[Len(wq')].fix = nFixes'
            /\ wq'[Len(wq')].loc = [pos |-> lastFix', timestamp |-> now]]_vars

\* the write of the first fix failed and was logged, nothing is waiting,
\* and a sample taken by a later fix is in the route
C25_Witness ==
    /\ errorLog = {1}
    /\ wq = <<>>
    /\ Len(jobsDB["J1"].route) = 2

\* ------------------------------------------------------------------ C22
\* the vehicle-location writes of the device that wait in the queue
LocationWrites == {i \in 1..Len(wq) : wq[i].kind = "location"}

\* C22: a session whose id matches no driver does not operate on a
\* substitute: the driver record given to the portal, and the document every
\* location write of the device is addressed to, are the session's own.
C22_NoSubstituteDriver ==
    /\ driverProp = user
    /\ \A i \in LocationWrites : wq[i].driver = user

\* ------------------------------------------------------------------ C26
\* the vehicle-location write at the head of the queue is applied
LocationWriteApplied ==
    /\ wq # <<>> /\ Head(wq).kind = "location"
    /\ wq' # wq /\ nFixes' = nFixes /\ errorLog' = errorLog

\* C26: an emission of the device changes only lastKnownLocation of the
\* document of its own vehicle and, if that vehicle has a trip under way,
\* the route of that trip: status and heartbeat of the vehicle, every other
\* vehicle document and every other trip stay as they are.
C26_IngestionFrame ==
    [][(LocationWriteApplied \/ (RouteWriteApplied /\ errorLog' = errorLog)) =>
         /\ \A d \in Drivers \ {user} : driversDB'[d] = driversDB[d]
         /\ driversDB'[user].status = driversDB[user].status
         /\ driversDB'[user].lastSeen = driversDB[user].lastSeen
         /\ \A j \in Jobs :
              jobsDB'[j] # jobsDB[j] =>
                /\ DriverOf(j) = user
                /\ jobsDB[j].status = IN_PROGRESS
                /\ jobsDB'[j] = [jobsDB[j] EXCEPT !.route = jobsDB'[j].route]]_vars

\* ------------------------------------------------------------------ C27
\* the trips of driver d that are stored as IN_PROGRESS
TripsInProgress(d) ==
    {j \in Jobs : DriverOf(j) = d /\ jobsDB[j].status = IN_PROGRESS}

\* C27: a driver never has more than one trip IN_PROGRESS at the same
\* time, whatever the order of the start requests and of their writes.
C27_OneTripInProgress ==
    \A d \in Drivers : Cardinality(TripsInProgress(d)) <= 1

\* ------------------------------------------------------------------ C28
\* no call of handleUpdateJobStatus is waiting for its position or for one
\* of its two writes
NoStatusUpdateInFlight ==
    /\ gpsWait = <<>>
    /\ \A i \in 1..Len(wq) : wq[i].kind \notin {"job", "driver"}

\* C28: whenever no status update is in flight, the stored status of a
\* vehicle is ON_JOB exactly when the vehicle has a trip IN_PROGRESS.
C28_StatusMatchesTrips ==
    NoStatusUpdateInFlight =>
      \A d \in Drivers :
        driversDB[d].status = "ON_JOB" <=> TripsInProgress(d) # {}

\* ------------------------------------------------------------------ C29
\* the update of the edit form is applied to the store
EditWriteApplied == editDriverData # NoEdit /\ editDriverData' = NoEdit

\* C29: the operator's update of a driver never replaces a lastKnownLocation
\* or a status that was written after the operator's copy was taken: the
\* stored values of both are the same before and after the update.
C29_EditKeepsLiveFields ==
    [][EditWriteApplied =>
         LET d == editDriverData.id IN
           /\ driversDB'[d].lastKnownLocation = driversDB[d].lastKnownLocation
           /\ driversDB'[d].status = driversDB[d].status]_vars

\* ------------------------------------------------------------------ C30
\* C30: the tracking view has at most one listener on the driver document
\* at any time, and none after it was torn down, however many snapshots of
\* the job document were delivered.
C30_OneDriverSubscription ==
    /\ trackDriverSubs <= 1
    /\ ~trackMounted => trackDriverSubs = 0

====
